---- MODULE Spec2Model ----
(***************************************************************************)
(* Model of the Albert "Dice Roll" extension (src/__init__.py).            *)
(*                                                                         *)
(* Strings are sequences of one-character strings, so that stripping, the  *)
(* two regular expressions, int(), str() and ", ".join() are computed on   *)
(* characters.  The random source is a nondeterministic choice of every    *)
(* value random.randint can return, plus a position `rng` in its stream.   *)
(* One call of handleQuery is a sequence of steps (pc); the locals of      *)
(* handleQuery and get_items are the variables of the same name.           *)
(* Icon resolution (get_icon_path) only reads the file system and no claim *)
(* depends on it, so albert.Item is modelled without its icon.             *)
(***************************************************************************)
EXTENDS Integers, Sequences, FiniteSets, TLC

VARIABLES pc, query, query_string, matches, i, results, sum_all_rolls,
          all_rolls, exc, items, log, rng, calls, escaped

vars == <<pc, query, query_string, matches, i, results, sum_all_rolls,
          all_rolls, exc, items, log, rng, calls, escaped>>

(*************************** bounds of the model ***************************)
\* longest query typed character by character
MaxLen == 4
\* most dice tokens in a generated dice query
MaxGroups == 2
\* most dice one query rolls in the model
MaxDice == 3
\* most sides of a die rolled in the model
MaxSides == 2
\* number of distinguished positions of the random stream
RngPeriod == 2

(****************************** characters *********************************)
Digits == {"0", "1", "2", "3", "4", "5", "6", "7", "8", "9"}
Whitespace == {" ", "\t", "\n"}
Alphabet == {"0", "2", "d", "D", " ", "x"}

\* Python's None (no captured number is negative)
None == -1

IsDigit(c) == c \in Digits

DigitVal(c) ==
  CASE c = "0" -> 0 [] c = "1" -> 1 [] c = "2" -> 2 [] c = "3" -> 3
    [] c = "4" -> 4 [] c = "5" -> 5 [] c = "6" -> 6 [] c = "7" -> 7
    [] c = "8" -> 8 [] c = "9" -> 9

DigitChar(n) ==
  CASE n = 0 -> "0" [] n = 1 -> "1" [] n = 2 -> "2" [] n = 3 -> "3"
    [] n = 4 -> "4" [] n = 5 -> "5" [] n = 6 -> "6" [] n = 7 -> "7"
    [] n = 8 -> "8" [] n = 9 -> "9"

\* int(s) for a non-empty string of decimal digits
RECURSIVE int(_)
int(s) ==
  IF Len(s) = 0 THEN 0
  ELSE 10 * int(SubSeq(s, 1, Len(s) - 1)) + DigitVal(s[Len(s)])

\* str(n) for n >= 0
RECURSIVE str(_)
str(n) ==
  IF n < 10 THEN <<DigitChar(n)>>
  ELSE str(n \div 10) \o <<DigitChar(n % 10)>>

\* sep.join(parts)
RECURSIVE Join(_, _)
Join(sep, parts) ==
  IF Len(parts) = 0 THEN <<>>
  ELSE IF Len(parts) = 1 THEN parts[1]
  ELSE parts[1] \o sep \o Join(sep, Tail(parts))

\* map(str, rolls)
MapStr(rolls) == [k \in 1..Len(rolls) |-> str(rolls[k])]

\* sum(rolls)
RECURSIVE Sum(_)
Sum(rolls) == IF Len(rolls) = 0 THEN 0 ELSE rolls[1] + Sum(Tail(rolls))

\* str.strip(): leading and trailing whitespace removed
RECURSIVE LStrip(_)
LStrip(s) ==
  IF Len(s) > 0 /\ s[1] \in Whitespace THEN LStrip(Tail(s)) ELSE s

RECURSIVE RStrip(_)
RStrip(s) ==
  IF Len(s) > 0 /\ s[Len(s)] \in Whitespace
  THEN RStrip(SubSeq(s, 1, Len(s) - 1)) ELSE s

Strip(s) == RStrip(LStrip(s))

(*************************** regular expressions ***************************)
\* length of the longest run of \d starting at position p
RECURSIVE DigitRun(_, _)
DigitRun(s, p) ==
  IF p <= Len(s) /\ IsDigit(s[p]) THEN 1 + DigitRun(s, p + 1) ELSE 0

\* length of the longest run of \D starting at position p
RECURSIVE NonDigitRun(_, _)
NonDigitRun(s, p) ==
  IF p <= Len(s) /\ ~IsDigit(s[p]) THEN 1 + NonDigitRun(s, p + 1) ELSE 0

\* the literal d under re.I
IsD(s, p) == p <= Len(s) /\ s[p] \in {"d", "D"}

\* $ without re.M: at the end, or before a newline that ends the string
AtDollar(s, p) == p = Len(s) + 1 \/ (p = Len(s) /\ s[p] = "\n")

Max(S) == CHOOSE x \in S : \A y \in S : y <= x
Min(S) == CHOOSE x \in S : \A y \in S : x <= y

\* lengths the first \d+ of (\d+)d(\d+) can take at p so that the rest matches
FirstGroupLens(s, p) ==
  {k \in 1..DigitRun(s, p) : IsD(s, p + k) /\ DigitRun(s, p + k + 1) >= 1}

\* the pattern with a lazy second group, (\d+)d(\d+?)
MatchSingleAt_lazy(s, p) ==
  LET K == FirstGroupLens(s, p) IN
  IF K = {} THEN [found |-> FALSE]
  ELSE LET k1 == Max(K) IN
       [found |-> TRUE,
        groups |-> <<SubSeq(s, p, p + k1 - 1), SubSeq(s, p + k1 + 1, p + k1 + 1)>>,
        end |-> p + k1 + 2]

\* single_dice_regex matched at position p: both quantifiers are greedy
MatchSingleAt(s, p) ==
  LET K == FirstGroupLens(s, p) IN
  IF K = {} THEN [found |-> FALSE]
  ELSE LET k1 == Max(K)
           k2 == DigitRun(s, p + k1 + 1)
       IN [found |-> TRUE,
           groups |-> <<SubSeq(s, p, p + k1 - 1),
                        SubSeq(s, p + k1 + 1, p + k1 + k2)>>,
           end |-> p + k1 + 1 + k2]

\* single_dice_regex.findall(s): leftmost matches, scanning on after each
RECURSIVE FindAllFrom(_, _)
FindAllFrom(s, p) ==
  IF p > Len(s) THEN <<>>
  ELSE LET m == MatchSingleAt(s, p) IN
       IF m.found THEN <<m.groups>> \o FindAllFrom(s, m.end)
       ELSE FindAllFrom(s, p + 1)

FindAll(s) == FindAllFrom(s, 1)

\* one iteration of (?:(\d+)d(\d+)(?:\D+|$)) at p: every way it can match
GroupIterations(s, p) ==
  UNION {
    UNION {
      LET q == p + k1 + 1 + k2
          tok == <<SubSeq(s, p, p + k1 - 1), SubSeq(s, p + k1 + 1, q - 1)>>
      IN {[tok |-> tok, next |-> q + j] : j \in 1..NonDigitRun(s, q)}
         \cup (IF AtDollar(s, q) THEN {[tok |-> tok, next |-> q]} ELSE {})
      : k2 \in 1..DigitRun(s, p + k1 + 1)}
    : k1 \in {k \in 1..DigitRun(s, p) : IsD(s, p + k)}}

\* the token sequences of every way (...)+ can match s from p to its end
RECURSIVE MatchPaths(_, _)
MatchPaths(s, p) ==
  UNION {
    (IF it.next = Len(s) + 1 THEN {<<it.tok>>} ELSE {})
    \cup {<<it.tok>> \o rest : rest \in MatchPaths(s, it.next)}
    : it \in GroupIterations(s, p)}

\* match() in place of fullmatch(): a prefix of s is enough
FullMatch_prefix(s) == GroupIterations(s, 1) # {}

\* multiple_dice_regex.fullmatch(s) is not None
FullMatch(s) == MatchPaths(s, 1) # {}

(********************************* items ***********************************)
\* __title__
Title == "Dice Roll"

\* the literal parts of the f-strings of get_item_from_rolls
TxtRolled == <<"R", "o", "l", "l", "e", "d", " ">>
TxtTotal == <<" ", "-", " ", "T", "o", "t", "a", "l", ":", " ">>
TxtOverall == <<"O", "v", "e", "r", "a", "l", "l", " ", "T", "o", "t", "a", "l", ":", " ">>
TxtRolls == <<"R", "o", "l", "l", "s", ":", " ">>
CommaSpace == <<",", " ">>

\* truth value of an Optional[int]: None and 0 are both false
Truthy(x) == x # None /\ x # 0

\* albert.Item built by get_item_from_rolls (icon left out, see above)
get_item_from_rolls(rolls, sum_rolls, num_sides) ==
  [id |-> Title,
   text |-> IF Truthy(num_sides)
            THEN TxtRolled \o str(Len(rolls)) \o <<"d">> \o str(num_sides)
                 \o TxtTotal \o str(sum_rolls)
            ELSE TxtOverall \o str(sum_rolls),
   subtext |-> TxtRolls \o Join(CommaSpace, MapStr(rolls)),
   actions |-> <<[text |-> "Copy total to clipboard", clip |-> str(sum_rolls)],
                 [text |-> "Copy rolls to clipboard",
                  clip |-> Join(CommaSpace, MapStr(rolls))]>>]

(***************************** rolling dice ********************************)
NoExc == "none"

\* a randint whose range starts at 0
RandInt_from0(a, b) == 0..b

\* every value random.randint(a, b) can return; none when the range is empty
\* (randint then raises ValueError)
RandInt(a, b) == a..b

\* a roll_dice that returns the number of rolls as the total
roll_dice_len(num_dice, num_sides) ==
  LET lists == [1..num_dice -> RandInt(1, num_sides)] IN
  IF lists = {} THEN {[exc |-> "ValueError", total |-> 0, rolls |-> <<>>]}
  ELSE {[exc |-> NoExc, total |-> Len(r), rolls |-> r] : r \in lists}

\* every outcome of roll_dice: the comprehension raises at its first randint
\* when the range is empty, and otherwise returns (sum(rolls), rolls)
roll_dice(num_dice, num_sides) ==
  LET lists == [1..num_dice -> RandInt(1, num_sides)] IN
  IF lists = {} THEN {[exc |-> "ValueError", total |-> 0, rolls |-> <<>>]}
  ELSE {[exc |-> NoExc, total |-> Sum(r), rolls |-> r] : r \in lists}

\* an except clause for one unrelated class only
CaughtByExcept_narrow(e) == e \in {"TypeError"}

\* except Exception: the classes the clause of handleQuery catches
CaughtByExcept(e) == e \in {"Exception", "ValueError"}

\* a handler that calls get_items without testing the pattern
QueryBranch_always(s) == "get_items"

\* the branch of handleQuery taken for the stripped query
QueryBranch(s) == IF FullMatch(s) THEN "get_items" ELSE "done"

\* all_rolls = rolls in place of extend
Extend_replace(all, rolls) == rolls

\* all_rolls.extend(rolls)
Extend(all, rolls) == all \o rolls

\* off-by-one thresholds for the summary item
NeedsSummary_gt2(ms) == Len(ms) > 2
NeedsSummary_ge1(ms) == Len(ms) >= 1

\* the condition under which get_items appends the summary item
NeedsSummary(ms) == Len(ms) > 1

\* the two diagnostic calls of the except clause
WarnMessage == "Something went wrong. Make sure you're using the correct format."
ExceptCalls(e) == <<[fn |-> "warn", arg |-> e], [fn |-> "info", arg |-> WarnMessage]>>

(******************************** inputs ***********************************)
\* every string over Alphabet of length at most MaxLen
Words == UNION {[1..k -> Alphabet] : k \in 0..MaxLen}

Seps == {<<" ">>, <<"d">>, <<>>}

\* queries written as g dice tokens that roll at most `budget` dice in all
RECURSIVE DiceQueries(_, _)
DiceQueries(g, budget) ==
  IF g = 1
  THEN {str(c) \o <<"d">> \o str(s) : c \in 0..budget, s \in 0..MaxSides}
  ELSE UNION {
         {str(c) \o <<"d">> \o str(s) \o sep \o w :
            s \in 0..MaxSides, sep \in Seps, w \in DiceQueries(g - 1, budget - c)}
         : c \in 0..budget}

Queries == Words \cup UNION {DiceQueries(g, MaxDice) : g \in 1..MaxGroups}

(******************************* the plugin ********************************)
Init ==
  /\ pc = "idle"
  /\ query = <<>>
  /\ query_string = <<>>
  /\ matches = <<>>
  /\ i = 0
  /\ results = <<>>
  /\ sum_all_rolls = 0
  /\ all_rolls = <<>>
  /\ exc = NoExc
  /\ items = <<>>
  /\ log = <<>>
  /\ rng = 0
  /\ calls = <<>>
  /\ escaped = FALSE

\* handleQuery is called with a query: strip it and test the full pattern
HandleQuery ==
  /\ pc = "idle"
  /\ \E q \in Queries :
       /\ query' = q
       /\ query_string' = Strip(q)
       /\ pc' = QueryBranch(Strip(q))
  /\ UNCHANGED <<matches, i, results, sum_all_rolls, all_rolls, exc, items,
                 log, rng, calls, escaped>>

\* get_items up to its loop: the aggregators and findall
GetItemsBegin ==
  /\ pc = "get_items"
  /\ results' = <<>>
  /\ sum_all_rolls' = 0
  /\ all_rolls' = <<>>
  /\ matches' = FindAll(query_string)
  /\ i' = 0
  /\ pc' = "loop"
  /\ UNCHANGED <<query, query_string, exc, items, log, rng, calls, escaped>>

\* one iteration of the loop of get_items
RollNext ==
  /\ pc = "loop"
  /\ i < Len(matches)
  /\ LET match == matches[i + 1]
         num_dice == int(match[1])
         num_sides == int(match[2])
     IN /\ num_sides <= MaxSides
        /\ Len(all_rolls) + num_dice <= MaxDice
        /\ \E out \in roll_dice(num_dice, num_sides) :
             IF out.exc # NoExc
             THEN /\ exc' = out.exc
                  /\ pc' = IF CaughtByExcept(out.exc) THEN "except" ELSE "done"
                  /\ escaped' = ~CaughtByExcept(out.exc)
                  /\ UNCHANGED <<i, results, sum_all_rolls, all_rolls, rng, calls>>
             ELSE /\ sum_all_rolls' = sum_all_rolls + out.total
                  /\ all_rolls' = Extend(all_rolls, out.rolls)
                  /\ results' = Append(results,
                        get_item_from_rolls(out.rolls, out.total, num_sides))
                  /\ i' = i + 1
                  /\ rng' = (rng + num_dice) % RngPeriod
                  /\ calls' = Append(calls,
                        [num_dice |-> num_dice, num_sides |-> num_sides,
                         total |-> out.total, rolls |-> out.rolls])
                  /\ UNCHANGED <<pc, exc, escaped>>
  /\ UNCHANGED <<query, query_string, matches, items, log>>

\* the end of get_items: the summary item, and the list is returned
GetItemsEnd ==
  /\ pc = "loop"
  /\ i = Len(matches)
  /\ results' = IF NeedsSummary(matches)
                THEN Append(results,
                       get_item_from_rolls(all_rolls, sum_all_rolls, None))
                ELSE results
  /\ items' = results'
  /\ pc' = "done"
  /\ UNCHANGED <<query, query_string, matches, i, sum_all_rolls, all_rolls,
                 exc, log, rng, calls, escaped>>

\* the except clause of handleQuery: two diagnostic calls, None is returned
Except ==
  /\ pc = "except"
  /\ log' = ExceptCalls(exc)
  /\ items' = <<>>
  /\ pc' = "done"
  /\ UNCHANGED <<query, query_string, matches, i, results, sum_all_rolls,
                 all_rolls, exc, rng, calls, escaped>>

\* the call is over: its frame is gone, the random source stays as it is
Return ==
  /\ pc = "done"
  /\ pc' = "idle"
  /\ query' = <<>>
  /\ query_string' = <<>>
  /\ matches' = <<>>
  /\ i' = 0
  /\ results' = <<>>
  /\ sum_all_rolls' = 0
  /\ all_rolls' = <<>>
  /\ exc' = NoExc
  /\ items' = <<>>
  /\ log' = <<>>
  /\ calls' = <<>>
  /\ escaped' = FALSE
  /\ UNCHANGED rng

Next ==
  \/ HandleQuery
  \/ GetItemsBegin
  \/ RollNext
  \/ GetItemsEnd
  \/ Except
  \/ Return

Spec == Init /\ [][Next]_vars

(************************ reading what an entry shows **********************)
HasPrefix(s, pre) == Len(s) >= Len(pre) /\ SubSeq(s, 1, Len(pre)) = pre

DropPrefix(s, pre) == SubSeq(s, Len(pre) + 1, Len(s))

\* the value of a string of decimal digits, read from the left
RECURSIVE ReadNumber(_, _)
ReadNumber(s, acc) ==
  IF Len(s) = 0 THEN acc ELSE ReadNumber(Tail(s), 10 * acc + DigitVal(s[1]))

\* the numbers of a list written "a, b, c" (none when the text is empty)
RECURSIVE ListedNumbers(_)
ListedNumbers(s) ==
  IF Len(s) = 0 THEN <<>>
  ELSE LET k == DigitRun(s, 1) IN
       <<ReadNumber(SubSeq(s, 1, k), 0)>>
       \o (IF k >= Len(s) THEN <<>> ELSE ListedNumbers(SubSeq(s, k + 3, Len(s))))

\* the number a headline ends with
ShownTotal(text) ==
  LET ks == {k \in 0..Len(text) :
               \A j \in (Len(text) - k + 1)..Len(text) : IsDigit(text[j])}
  IN ReadNumber(SubSeq(text, Len(text) - Max(ks) + 1, Len(text)), 0)

\* the outcomes an entry lists in its subtext
ShownRolls(item) == ListedNumbers(DropPrefix(item.subtext, TxtRolls))

\* a sum taken from the right end
RECURSIVE SumOf(_)
SumOf(xs) ==
  IF Len(xs) = 0 THEN 0 ELSE SumOf(SubSeq(xs, 1, Len(xs) - 1)) + xs[Len(xs)]

\* the concatenation of the lists shown by entries 1..n
RECURSIVE ShownRollsUpTo(_, _)
ShownRollsUpTo(its, n) ==
  IF n = 0 THEN <<>> ELSE ShownRollsUpTo(its, n - 1) \o ShownRolls(its[n])

RECURSIVE ShownTotalsUpTo(_, _)
ShownTotalsUpTo(its, n) ==
  IF n = 0 THEN 0 ELSE ShownTotalsUpTo(its, n - 1) + ShownTotal(its[n].text)

\* the query without its leading and trailing whitespace
Trimmed(s) ==
  LET nz == {k \in 1..Len(s) : s[k] \notin Whitespace} IN
  IF nz = {} THEN <<>> ELSE SubSeq(s, Min(nz), Max(nz))

\* the maximal runs of digits and of non-digits of s, in order
RECURSIVE Runs(_, _)
Runs(s, p) ==
  IF p > Len(s) THEN <<>>
  ELSE LET k == IF IsDigit(s[p]) THEN DigitRun(s, p) ELSE NonDigitRun(s, p) IN
       <<SubSeq(s, p, p + k - 1)>> \o Runs(s, p + k)

\* one or more tokens <digits>d<digits>, each followed by a non-empty run of
\* non-digits or by the end: the runs go count, d, sides, separator, ...
IsDiceNotation(s) ==
  LET r == Runs(s, 1) IN
  /\ Len(r) >= 3
  /\ IsDigit(r[1][1])
  /\ Len(r) % 4 \in {3, 0}
  /\ \A k \in 1..Len(r) : k % 4 = 2 => r[k] \in {<<"d">>, <<"D">>}

\* the handled query was accepted by the full pattern and rolled without failure
Succeeded == pc = "done" /\ FullMatch(query_string) /\ exc = NoExc

\* the numbers of token k of the handled query
TokenCount(k) == int(matches[k][1])
TokenSides(k) == int(matches[k][2])

\* some token of the handled query cannot be rolled
SomeTokenFails == \E k \in 1..Len(matches) : TokenCount(k) >= 1 /\ TokenSides(k) = 0

(********************************* claims **********************************)
\* C1: for count >= 1 and sides >= 1, roll_dice returns (it does not raise),
\* it returns exactly count outcomes, each in [1, sides], and the returned
\* total is the exact sum of those outcomes, whatever the random source yields.
C1_RollDiceContract ==
  /\ \A k \in 1..Len(calls) :
       LET c == calls[k] IN
       (c.num_dice >= 1 /\ c.num_sides >= 1) =>
         /\ Len(c.rolls) = c.num_dice
         /\ \A j \in 1..Len(c.rolls) : c.rolls[j] >= 1 /\ c.rolls[j] <= c.num_sides
         /\ c.total = SumOf(c.rolls)
  /\ pc = "except" => ~(TokenCount(i + 1) >= 1 /\ TokenSides(i + 1) >= 1)

C1_Witness ==
  \E k \in 1..Len(calls) :
    /\ calls[k].num_dice = 2 /\ calls[k].num_sides = 2
    /\ calls[k].rolls = <<2, 1>>

\* C2: every returned entry shows a total equal to the sum of the outcomes
\* listed in its own subtext, and its two copy actions carry that total and
\* that list of outcomes.
C2_EntryTotalIsSumOfItsRolls ==
  \A k \in 1..Len(items) :
    LET it == items[k] IN
    /\ HasPrefix(it.subtext, TxtRolls)
    /\ ShownTotal(it.text) = SumOf(ShownRolls(it))
    /\ ReadNumber(it.actions[1].clip, 0) = ShownTotal(it.text)
    /\ DigitRun(it.actions[1].clip, 1) = Len(it.actions[1].clip)
    /\ ListedNumbers(it.actions[2].clip) = ShownRolls(it)

C2_Witness ==
  /\ pc = "done" /\ Len(items) = 3 /\ rng = 1
  /\ ShownRolls(items[1]) = <<2>> /\ ShownRolls(items[2]) = <<1, 2>>
  /\ ShownTotal(items[3].text) = 5

\* C3: for a multi-group query, the summary entry lists the concatenation of
\* the roll lists of that query's group entries in match order, and its total
\* is the sum of their totals.
C3_SummaryIsConcatenation ==
  (Succeeded /\ Len(matches) > 1) =>
    LET n == Len(matches) IN
    /\ Len(items) = n + 1
    /\ ShownRolls(items[n + 1]) = ShownRollsUpTo(items, n)
    /\ ShownTotal(items[n + 1].text) = ShownTotalsUpTo(items, n)
    /\ \A k \in 1..n : ShownRolls(items[k]) = calls[k].rolls

C3_Witness ==
  /\ Succeeded /\ Len(matches) = 2 /\ rng = 1
  /\ ShownRolls(items[1]) = <<2>> /\ ShownRolls(items[2]) = <<1, 1>>
  /\ ShownRolls(items[3]) = <<2, 1, 1>>

\* C4: a validated query with n > 1 tokens that rolls without failure returns
\* n + 1 entries, the n group entries in match order (entry k lists as many
\* outcomes as token k has dice, none above its sides) and then one summary
\* entry; with one token no summary entry is appended.
C4_EntryCountAndOrder ==
  Succeeded =>
    LET n == Len(matches) IN
    /\ n > 1 =>
         /\ Len(items) = n + 1
         /\ \A k \in 1..n :
              /\ Len(ShownRolls(items[k])) = TokenCount(k)
              /\ \A j \in 1..TokenCount(k) : ShownRolls(items[k])[j] <= TokenSides(k)
         /\ HasPrefix(items[n + 1].text, TxtOverall)
    /\ n <= 1 => Len(items) = n

C4_Witness ==
  /\ Succeeded /\ Len(matches) = 2 /\ Len(items) = 3
  /\ TokenCount(1) = 2 /\ TokenCount(2) = 0

\* C5 as stated: every validated query with exactly one dice token, a
\* captured 0 included, produces exactly one entry.
C5_Original ==
  (pc = "done" /\ FullMatch(query_string) /\ Len(FindAll(query_string)) = 1)
    => Len(items) = 1

\* C5 as amended: a validated query with exactly one dice token produces
\* exactly one entry when the token can be rolled (count = 0 or sides >= 1),
\* and no entry when it cannot (count >= 1 and sides = 0).
C5_SingleTokenOneEntry ==
  (pc = "done" /\ FullMatch(query_string) /\ Len(FindAll(query_string)) = 1)
    => Len(items) = (IF SomeTokenFails THEN 0 ELSE 1)

C5_Witness ==
  /\ pc = "done" /\ FullMatch(query_string) /\ Len(FindAll(query_string)) = 1
  /\ TokenCount(1) = 0 /\ TokenSides(1) = 0 /\ Len(items) = 1

\* C6: a query whose trimmed text does not match the full pattern returns no
\* items, makes no diagnostic call, never rolls and leaves the random source
\* as it was, in the call and in its return.
C6_NonMatchIsSilent ==
  [][ /\ (pc = "idle" /\ ~FullMatch(Trimmed(query'))) =>
           /\ pc' = "done" /\ items' = <<>> /\ log' = <<>>
           /\ calls' = <<>> /\ rng' = rng
      /\ (pc = "done" /\ ~FullMatch(Trimmed(query))) =>
           /\ items = <<>> /\ log = <<>> /\ calls = <<>> /\ rng' = rng
    ]_vars

C6_Witness ==
  /\ pc = "done" /\ ~FullMatch(query_string) /\ FindAll(query_string) # <<>>
  /\ rng = 1 /\ items = <<>> /\ log = <<>>

\* C7: no exception escapes handleQuery; a validated query whose rolling
\* fails returns no items, not even those of groups already rolled, and makes
\* exactly the calls warn(error), info(fixed text) in that order; a query that
\* succeeds makes neither call.
C7_FailureIsContained ==
  /\ ~escaped
  /\ (pc = "done" /\ FullMatch(query_string)) =>
       IF SomeTokenFails
       THEN /\ items = <<>>
            /\ log = <<[fn |-> "warn", arg |-> "ValueError"],
                       [fn |-> "info", arg |-> WarnMessage]>>
       ELSE log = <<>> /\ items # <<>>
  /\ pc \in {"idle", "get_items", "loop", "except"} => log = <<>> /\ items = <<>>

C7_Witness ==
  /\ pc = "done" /\ FullMatch(query_string) /\ SomeTokenFails
  /\ Len(calls) = 1 /\ calls[1].rolls = <<2>> /\ Len(log) = 2

\* C8: handleQuery takes the query as dice notation exactly when the whole
\* trimmed string is one or more tokens <digits>d<digits> (d in either case),
\* each followed by a non-empty run of non-digits or by the end of the string.
C8_AcceptedIffDiceNotation ==
  [][pc = "idle" =>
       /\ pc' \in {"get_items", "done"}
       /\ (pc' = "get_items") <=> IsDiceNotation(Trimmed(query'))]_vars

C8_Witness ==
  /\ pc = "get_items"
  /\ query = <<" ", "2", "D", "0">>

\* C10: on every accepted query the findall of the single-token pattern
\* returns exactly the tokens of the way the full pattern matched, in order:
\* that way is unique and the two passes agree.
C10_PassesAgree ==
  pc = "loop" => MatchPaths(query_string, 1) = {matches}

C10_Witness ==
  /\ pc = "loop"
  /\ query_string = <<"1", "d", "2", "d", "0", "d", "1">>
  /\ matches = <<<<<<"1">>, <<"2">>>>, <<<<"0">>, <<"1">>>>>>

\* C9: the group entry of token (count, sides) has the headline
\* "Rolled {count}d{sides} - Total: {total}", and "Overall Total: {total}" is
\* the headline of the summary entry of a multi-group query only.
C9_Headlines ==
  Succeeded =>
    /\ \A k \in 1..Len(matches) :
         items[k].text = TxtRolled \o str(TokenCount(k)) \o <<"d">>
                         \o str(TokenSides(k)) \o TxtTotal \o str(calls[k].total)
    /\ \A k \in 1..Len(items) :
         HasPrefix(items[k].text, TxtOverall) =>
           (Len(matches) > 1 /\ k = Len(matches) + 1)

====
